---- MODULE Spec2Model ----
(***************************************************************************)
(* Model of src/src/main.rs: a turn-based multiplayer code-guessing game.  *)
(* Each player guesses their own secret 4-digit code; run_game drives the  *)
(* turn loop, the round counter and the round-based tie ranking.           *)
(*                                                                         *)
(* Text is modelled as a sequence of one-character strings.  Option<T> is  *)
(* modelled as a set: {} is None, {v} is Some(v).  Vec indices are 0-based *)
(* in the code; a Vec element v[i] is the sequence element v[i + 1].       *)
(***************************************************************************)
EXTENDS Integers, Sequences, FiniteSets, TLC

\* ------------------------------------------------------------------ bounds
MaxPlayers == 3
MaxGuesses == 4
MaxInputLen == 5

\* ------------------------------------------------------- text and digits
\* Decimal digit characters and their values: char::to_digit(10).
DigitChars == <<"0", "1", "2", "3", "4", "5", "6", "7", "8", "9">>

to_digit_nonzero(c) == {i - 1 : i \in {j \in 2..10 : DigitChars[j] = c}}

to_digit(c) == {i - 1 : i \in {j \in 1..10 : DigitChars[j] = c}}

\* Stands for one character outside ASCII (e with acute accent, U+00E9).
EAcute == "e-acute"

\* Number of bytes of a character in UTF-8; String::len counts bytes.
len_utf8(c) == IF c = EAcute THEN 2 ELSE 1

RECURSIVE len(_)
len(s) == IF s = <<>> THEN 0 ELSE len_utf8(Head(s)) + len(Tail(s))

is_whitespace(c) == c = " "

RECURSIVE trim_start(_)
trim_start(s) ==
    IF s # <<>> /\ is_whitespace(Head(s)) THEN trim_start(Tail(s)) ELSE s

RECURSIVE trim_end(_)
trim_end(s) ==
    IF s # <<>> /\ is_whitespace(s[Len(s)])
    THEN trim_end(SubSeq(s, 1, Len(s) - 1))
    ELSE s

\* read_line returns the line with surrounding whitespace removed.
trim(s) == trim_end(trim_start(s))

\* -------------------------------------------------------- guess validator
WrongLength == "Guess must be exactly 4 digits."
RepeatedDigit == "Digits must not be repeated."
NonDigitCharacter == "Input contains non-digit characters."

Range(s) == {s[i] : i \in 1..Len(s)}

\* The for loop over input.chars(): digits collected so far, seen_digits is
\* the set of their values; the first fault met ends the scan.
RECURSIVE scan_chars(_, _, _)
scan_chars(input, i, digits) ==
    IF i > Len(input)
    THEN [valid |-> TRUE, message |-> "", digits |-> digits]
    ELSE LET d == to_digit(input[i]) IN
         IF d = {}
         THEN [valid |-> FALSE, message |-> NonDigitCharacter, digits |-> <<>>]
         ELSE LET d_u8 == CHOOSE v \in d : TRUE IN
              IF d_u8 \in Range(digits)
              THEN [valid |-> FALSE, message |-> RepeatedDigit, digits |-> <<>>]
              ELSE scan_chars(input, i + 1, Append(digits, d_u8))

\* One pass of the loop in get_player_guess over an already trimmed line.
check_guess_fixed_order(input) ==
    IF len(input) # 4
    THEN [valid |-> FALSE, message |-> WrongLength, digits |-> <<>>]
    ELSE IF \E i \in 1..Len(input) : to_digit(input[i]) = {}
         THEN [valid |-> FALSE, message |-> NonDigitCharacter, digits |-> <<>>]
         ELSE scan_chars(input, 1, <<>>)

check_guess(input) ==
    IF len(input) # 4
    THEN [valid |-> FALSE, message |-> WrongLength, digits |-> <<>>]
    ELSE scan_chars(input, 1, <<>>)

\* One prompt of get_player_guess: read_line, then the checks.
get_player_guess(raw) == check_guess(trim(raw))

\* ----------------------------------------------------------------- scorer
U8 == 256

RECURSIVE count_position_short(_, _, _)
count_position_short(guess, secret, i) ==
    IF i > 3 THEN 0
    ELSE (IF guess[i] = secret[i] THEN 1 ELSE 0)
         + count_position_short(guess, secret, i + 1)

RECURSIVE count_position(_, _, _)
count_position(guess, secret, i) ==
    IF i > 4 THEN 0
    ELSE (IF guess[i] = secret[i] THEN 1 ELSE 0)
         + count_position(guess, secret, i + 1)

RECURSIVE count_total_ahead(_, _, _)
count_total_ahead(guess, secret, i) ==
    IF i > 4 THEN 0
    ELSE (IF guess[i] \in Range(SubSeq(secret, i, 4)) THEN 1 ELSE 0)
         + count_total_ahead(guess, secret, i + 1)

RECURSIVE count_total(_, _, _)
count_total(guess, secret, i) ==
    IF i > 4 THEN 0
    ELSE (IF guess[i] \in Range(secret) THEN 1 ELSE 0)
         + count_total(guess, secret, i + 1)

\* Returns <<correct_position, correct_wrong_position>>, both u8.
calculate_score_no_subtract(guess, secret) ==
    <<count_position(guess, secret, 1), count_total(guess, secret, 1)>>

calculate_score_any_position(guess, secret) ==
    <<count_total(guess, secret, 1), 0>>

calculate_score_reversed(guess, secret) ==
    LET correct_position == count_position(guess, secret, 1)
        total_correct_digits == count_total(guess, secret, 1)
    IN <<correct_position, (correct_position - total_correct_digits) % U8>>

calculate_score(guess, secret) ==
    LET correct_position == count_position(guess, secret, 1)
        total_correct_digits == count_total(guess, secret, 1)
    IN <<correct_position, (total_correct_digits - correct_position) % U8>>

\* ------------------------------------------------------------ match state
VARIABLES
    players,              \* Vec<Player> of the players still active, in turn order
    completed_players,    \* Vec<Player> of the players who have finished
    num_players,          \* number of players entered at setup
    current_player_index, \* 0-based index of the player to guess
    round_number,         \* 1-based round counter
    total_guesses,        \* cumulative guess counter
    rank_to_assign,       \* rank of the next distinct finisher
    last_assigned_round,  \* round in which the latest rank was given
    rank_to_assign_final, \* rank handed to post_game_menu (0 outside a win)
    pc,                   \* position of the control flow of run_game
    input,                \* the line most recently read by get_player_guess
    outcome,              \* what get_player_guess made of that line
    output                \* what has been printed about turns and finishes

vars == <<players, completed_players, num_players, current_player_index,
          round_number, total_guesses, rank_to_assign, last_assigned_round,
          rank_to_assign_final, pc, input, outcome, output>>

match_vars == <<players, completed_players, num_players, current_player_index,
                round_number, total_guesses, rank_to_assign,
                last_assigned_round, rank_to_assign_final, output>>

\* Names typed in at setup, by position.
Names == <<"A", "B", "C", "D", "E">>

\* Codes generate_secret may return (a sample of the 5040 possible ones).
SecretPool == {<<1, 2, 3, 4>>, <<5, 6, 7, 8>>}

\* Lines the players type at the guess prompt.
GuessInputs ==
    { <<"1", "2", "3", "4">>, <<"5", "6", "7", "8">>,
      <<"1", "2", "3", "5">>, <<"5", "6", "7", "9">>,
      <<"1", "2", "a", "3">>, <<"1", "1", "2", "3">>, <<"1", "2", "3">> }

NoOutcome == [valid |-> FALSE, message |-> "", digits |-> <<>>]

Player(name, secret_code) ==
    [name |-> name, secret_code |-> secret_code, rank |-> {}]

\* State of run_game when the loop is entered: setup done, starting player chosen.
Init ==
    /\ num_players \in 1..MaxPlayers
    /\ \E secrets \in [1..num_players -> SecretPool] :
          players = [i \in 1..num_players |-> Player(Names[i], secrets[i])]
    /\ current_player_index \in 0..(num_players - 1)
    /\ completed_players = <<>>
    /\ round_number = 1
    /\ total_guesses = 0
    /\ rank_to_assign = 1
    /\ last_assigned_round = 0
    /\ rank_to_assign_final = 0
    /\ pc = "loop"
    /\ input = <<>>
    /\ outcome = NoOutcome
    /\ output = <<>>

\* Vec::remove(i) for a 0-based i.
remove_nothing(v, i) == v

remove(v, i) == SubSeq(v, 1, i) \o SubSeq(v, i + 2, Len(v))

\* Vec::push.
push_front(v, p) == <<p>> \o v

push(v, p) == Append(v, p)

\* player.rank = Some(rank).
set_rank_lost(p, rank) == p

set_rank(p, rank) == [p EXCEPT !.rank = {rank}]

\* "Ensure the current_player_index is valid after a removal".
valid_index(index, length) == IF index >= length THEN 0 ELSE index

\* Pointer after a non-winning guess.
next_index_no_wrap(index, length) == index + 1

next_index(index, length) == (index + 1) % length

\* Pointer after the winner at index has been removed; length is the new length.
adjust_index_kept(index, length) == index

adjust_index_incremented(index, length) == (index + 1) % length

adjust_index(index, length) == index % length

\* Round counter after a non-winning guess.
next_round(round, guesses, length) ==
    IF guesses % length = 0 THEN round + 1 ELSE round

\* The ranking rule applied to a winning guess: the rank given and the next
\* value of rank_to_assign.
rank_for_win_no_tie(round, last_round, next_rank) ==
    [final |-> next_rank, next |-> next_rank + 1]

rank_for_win_tie_next(round, last_round, next_rank) ==
    IF round > last_round
    THEN [final |-> next_rank, next |-> next_rank + 1]
    ELSE [final |-> next_rank, next |-> next_rank]

rank_for_win(round, last_round, next_rank) ==
    IF round > last_round
    THEN [final |-> next_rank, next |-> next_rank + 1]
    ELSE LET prev == IF next_rank >= 1 THEN next_rank - 1 ELSE 0 IN
         [final |-> IF prev = 0 THEN 1 ELSE prev, next |-> next_rank]

\* ---------------------------------------------------------------- run_game
current_player == players[current_player_index + 1]

\* Loop head with a single unranked player left: that player gets the current
\* rank_to_assign, the roster is drained into the completed list, the loop ends.
AutoFinish_rank_after ==
    /\ pc = "loop"
    /\ players # <<>>
    /\ Len(players) = 1 /\ players[1].rank = {}
    /\ players' = <<>>
    /\ completed_players' =
          Append(completed_players,
                 [players[1] EXCEPT !.rank = {rank_to_assign + 1}])
    /\ output' = Append(output, [kind |-> "auto", name |-> players[1].name,
                                 rank |-> rank_to_assign + 1])
    /\ pc' = "final"
    /\ UNCHANGED <<num_players, current_player_index, round_number,
                   total_guesses, rank_to_assign, last_assigned_round,
                   rank_to_assign_final, input, outcome>>

AutoFinish ==
    /\ pc = "loop"
    /\ players # <<>>
    /\ Len(players) = 1 /\ players[1].rank = {}
    /\ players' = <<>>
    /\ completed_players' =
          Append(completed_players, [players[1] EXCEPT !.rank = {rank_to_assign}])
    /\ output' = Append(output, [kind |-> "auto", name |-> players[1].name,
                                 rank |-> rank_to_assign])
    /\ pc' = "final"
    /\ UNCHANGED <<num_players, current_player_index, round_number,
                   total_guesses, rank_to_assign, last_assigned_round,
                   rank_to_assign_final, input, outcome>>

\* Loop head otherwise: the index is made valid, the guess is counted, the
\* round header is printed and the player is prompted.
BeginTurn_single_player ==
    /\ pc = "loop"
    /\ players # <<>>
    /\ total_guesses < MaxGuesses
    /\ LET index == valid_index(current_player_index, Len(players)) IN
         /\ current_player_index' = index
         /\ output' = Append(output, [kind |-> "turn", round |-> round_number,
                                      name |-> players[index + 1].name])
    /\ total_guesses' = total_guesses + 1
    /\ pc' = "guess"
    /\ UNCHANGED <<players, completed_players, num_players, round_number,
                   rank_to_assign, last_assigned_round, rank_to_assign_final,
                   input, outcome>>

BeginTurn ==
    /\ pc = "loop"
    /\ players # <<>>
    /\ ~(Len(players) = 1 /\ players[1].rank = {})
    /\ total_guesses < MaxGuesses
    /\ LET index == valid_index(current_player_index, Len(players)) IN
         /\ current_player_index' = index
         /\ output' = Append(output, [kind |-> "turn", round |-> round_number,
                                      name |-> players[index + 1].name])
    /\ total_guesses' = total_guesses + 1
    /\ pc' = "guess"
    /\ UNCHANGED <<players, completed_players, num_players, round_number,
                   rank_to_assign, last_assigned_round, rank_to_assign_final,
                   input, outcome>>

\* get_player_guess reads a line it does not accept: it prints the reason
\* and prompts again.
RejectGuess_skips_turn(raw) ==
    /\ pc = "guess"
    /\ ~get_player_guess(raw).valid
    /\ input' = raw
    /\ outcome' = get_player_guess(raw)
    /\ current_player_index' = (current_player_index + 1) % Len(players)
    /\ pc' = "loop"
    /\ UNCHANGED <<players, completed_players, num_players, round_number,
                   total_guesses, rank_to_assign, last_assigned_round,
                   rank_to_assign_final, output>>

RejectGuess(raw) ==
    /\ pc = "guess"
    /\ ~get_player_guess(raw).valid
    /\ input' = raw
    /\ outcome' = get_player_guess(raw)
    /\ UNCHANGED <<pc, match_vars>>

Feedback(guess, score) ==
    [kind |-> "feedback", guess |-> guess,
     x |-> score[1] + score[2], y |-> score[1]]

\* An accepted guess that is not the secret: feedback, round check, next player.
WrongGuess(raw) ==
    /\ pc = "guess"
    /\ get_player_guess(raw).valid
    /\ LET guess == get_player_guess(raw).digits
           score == calculate_score(guess, current_player.secret_code)
       IN /\ score[1] # 4
          /\ output' = Append(output, Feedback(guess, score))
    /\ input' = raw
    /\ outcome' = get_player_guess(raw)
    /\ round_number' = next_round(round_number, total_guesses, Len(players))
    /\ current_player_index' = next_index(current_player_index, Len(players))
    /\ pc' = "loop"
    /\ UNCHANGED <<players, completed_players, num_players, total_guesses,
                   rank_to_assign, last_assigned_round, rank_to_assign_final>>

\* An accepted guess with 4 digits in position: the rank is decided, the win
\* is announced and post_game_menu is entered.
WinningGuess(raw) ==
    /\ pc = "guess"
    /\ \E read \in {get_player_guess(raw)} :
       /\ read.valid
       /\ \E score \in {calculate_score(read.digits, current_player.secret_code)} :
          LET guess == read.digits
              rank == rank_for_win(round_number, last_assigned_round,
                                   rank_to_assign)
          IN /\ score[1] = 4
             /\ rank_to_assign_final' = rank.final
             /\ rank_to_assign' = rank.next
             /\ output' = output \o
                   <<Feedback(guess, score),
                     [kind |-> "win", name |-> current_player.name,
                      guess |-> guess, rank |-> rank.final]>>
       /\ outcome' = read
    /\ input' = raw
    /\ last_assigned_round' = round_number
    /\ pc' = "menu"
    /\ UNCHANGED <<players, completed_players, num_players,
                   current_player_index, round_number, total_guesses>>

\* post_game_menu, choice "1": the winner gets the rank, leaves the roster and
\* joins the completed list; run_game then re-normalises the index.
MenuContinue ==
    /\ pc = "menu"
    /\ LET winner_index == current_player_index
           winning_player == set_rank(players[winner_index + 1],
                                      rank_to_assign_final)
           rest == remove(players, winner_index)
       IN /\ players' = rest
          /\ completed_players' = push(completed_players, winning_player)
          /\ output' = Append(output, [kind |-> "removed",
                                       name |-> winning_player.name,
                                       rank |-> rank_to_assign_final])
          /\ IF rest = <<>>
             THEN /\ pc' = "final"
                  /\ UNCHANGED current_player_index
             ELSE /\ pc' = "loop"
                  /\ current_player_index' =
                        adjust_index(current_player_index, Len(rest))
    /\ rank_to_assign_final' = 0
    /\ UNCHANGED <<num_players, round_number, total_guesses, rank_to_assign,
                   last_assigned_round, input, outcome>>

\* post_game_menu, choice "2": the loop is left with the roster as it is.
MenuRestart ==
    /\ pc = "menu"
    /\ pc' = "final"
    /\ rank_to_assign_final' = 0
    /\ UNCHANGED <<players, completed_players, num_players,
                   current_player_index, round_number, total_guesses,
                   rank_to_assign, last_assigned_round, input, outcome, output>>

\* post_game_menu, choice "3": the process exits.
MenuQuit ==
    /\ pc = "menu"
    /\ pc' = "exited"
    /\ UNCHANGED <<match_vars, input, outcome>>

\* sort_by_key is a stable sort: insertion after the entries with key <= k.
rank_key(p) == IF p.rank = {} THEN num_players ELSE CHOOSE r \in p.rank : TRUE

RECURSIVE insert_sorted(_, _)
insert_sorted(sorted, p) ==
    IF sorted = <<>> THEN <<p>>
    ELSE IF rank_key(sorted[Len(sorted)]) <= rank_key(p)
         THEN Append(sorted, p)
         ELSE Append(insert_sorted(SubSeq(sorted, 1, Len(sorted) - 1), p),
                     sorted[Len(sorted)])

RECURSIVE sort_by_rank(_)
sort_by_rank(v) ==
    IF v = <<>> THEN <<>>
    ELSE insert_sorted(sort_by_rank(SubSeq(v, 1, Len(v) - 1)), v[Len(v)])

\* After the loop: the completed list is sorted by rank and displayed.
FinalDisplay ==
    /\ pc = "final"
    /\ completed_players' = sort_by_rank(completed_players)
    /\ pc' = "game_over"
    /\ UNCHANGED <<players, num_players, current_player_index, round_number,
                   total_guesses, rank_to_assign, last_assigned_round,
                   rank_to_assign_final, input, outcome, output>>

Next ==
    \/ AutoFinish
    \/ BeginTurn
    \/ \E raw \in GuessInputs : RejectGuess(raw)
    \/ \E raw \in GuessInputs : WrongGuess(raw)
    \/ \E raw \in GuessInputs : WinningGuess(raw)
    \/ MenuContinue
    \/ MenuRestart
    \/ MenuQuit
    \/ FinalDisplay

Spec == Init /\ [][Next]_vars

\* ------------------------------------------------- the guess prompt alone
\* Characters a typed line is made of: digits, a letter, a blank and a
\* character that takes two bytes in UTF-8.
InputChars == {"0", "1", "2", "3", "4", "9", "a", " ", EAcute}

Lines(n) == UNION {[1..k -> InputChars] : k \in 0..n}

\* A prompt of get_player_guess with an arbitrary line about to be read.
InitInput ==
    /\ input \in Lines(MaxInputLen)
    /\ outcome = NoOutcome
    /\ pc = "prompt"
    /\ players = <<>>
    /\ completed_players = <<>>
    /\ num_players = 0
    /\ current_player_index = 0
    /\ round_number = 1
    /\ total_guesses = 0
    /\ rank_to_assign = 1
    /\ last_assigned_round = 0
    /\ rank_to_assign_final = 0
    /\ output = <<>>

\* The line is read and checked.
ReadGuess ==
    /\ pc = "prompt"
    /\ outcome' = get_player_guess(input)
    /\ pc' = "checked"
    /\ UNCHANGED <<input, match_vars>>

NextInput == ReadGuess

SpecInput == InitInput /\ [][NextInput]_vars

\* ------------------------------------------------------------ properties
\* Entries of the output of one kind, in print order.
Printed(kind) == SelectSeq(output, LAMBDA e : e.kind = kind)

WinAt(k) == output[k].kind = "win"

\* A win is printed right after its feedback, which follows the round header.
RoundOfWin(k) == output[k - 2].round

\* A step that completes a guess: the loop head is reached again, directly
\* after a non-winning guess or through the menu after a winning one.
TurnCompleted ==
    \/ pc = "guess" /\ pc' = "loop"
    \/ pc = "menu" /\ pc' = "loop"

\* C1: the rank announced for a winning guess equals the number of distinct
\* round-counter values under which a winning guess has been made so far,
\* this one included.
C1_RankCountsWinningRounds ==
    \A k \in 1..Len(output) :
        WinAt(k) =>
            output[k].rank =
                Cardinality({RoundOfWin(j) : j \in {i \in 1..k : WinAt(i)}})

\* Two wins under one round value have shared a rank.
C1_Witness ==
    \E j, k \in 1..Len(output) :
        /\ j < k /\ WinAt(j) /\ WinAt(k)
        /\ RoundOfWin(j) = RoundOfWin(k)
        /\ output[j].rank = output[k].rank

\* C2: the round counter goes up by one exactly on the completed guesses
\* whose cumulative count is a multiple of the roster length at the time of
\* the guess, winning guesses included.
C2_RoundAdvancesOnEveryFullCycle ==
    [][IF TurnCompleted
       THEN round_number' = IF total_guesses % Len(players) = 0
                            THEN round_number + 1 ELSE round_number
       ELSE round_number' = round_number]_vars

\* C3: no player makes two guesses under the same round number.
C3_OneTurnPerPlayerPerRound ==
    \A j, k \in 1..Len(output) :
        (/\ j < k
         /\ output[j].kind = "turn" /\ output[k].kind = "turn"
         /\ output[j].name = output[k].name)
        => output[j].round # output[k].round

\* C4 as stated: after every completed guess, winning or not, the turn
\* pointer is incremented by one modulo the current roster length.
C4_PointerAlwaysIncremented ==
    [][TurnCompleted =>
          current_player_index' = (current_player_index + 1) % Len(players')]_vars

\* C4 amended: a non-winning guess increments the pointer modulo the roster
\* length; a winning guess followed by the removal of the guesser leaves the
\* pointer where it is, except that it becomes 0 when the guesser stood last.
C4_PointerAfterGuess ==
    [][/\ (pc = "guess" /\ pc' = "loop") =>
             /\ players' = players
             /\ current_player_index' =
                   IF current_player_index = Len(players) - 1
                   THEN 0 ELSE current_player_index + 1
       /\ (pc = "menu" /\ pc' = "loop") =>
             /\ Len(players') = Len(players) - 1
             /\ current_player_index' =
                   IF current_player_index = Len(players) - 1
                   THEN 0 ELSE current_player_index
             /\ current_player_index' < Len(players')]_vars

\* The winner stood last in a roster of three and the pointer went back to 0.
C4_Witness ==
    /\ pc = "loop" /\ num_players = 3 /\ Len(players) = 2
    /\ output # <<>> /\ output[Len(output)].kind = "removed"
    /\ completed_players[1].name = Names[3]
    /\ current_player_index = 0

\* C5: whenever the roster is non-empty the current-turn index is a valid
\* index into it, also right after the player at that index was removed.
C5_IndexValid ==
    players # <<>> => current_player_index < Len(players)

\* A player is prompted after the last player of a three-player roster left.
C5_Witness ==
    /\ pc = "guess" /\ num_players = 3 /\ Len(players) = 2
    /\ Len(completed_players) = 1 /\ completed_players[1].name = Names[3]
    /\ output[Len(output) - 1].kind = "removed"
    /\ current_player_index < Len(players)

\* C6: a roster of exactly one unranked player is finished at once: the
\* player gets the current rank_to_assign and joins the completed list, no
\* guess is counted, and once the loop has ended no turn is played.
C6_LastPlayerAutoFinished ==
    [][/\ (Len(players) = 1 /\ players[1].rank = {}) =>
             /\ pc = "loop"
             /\ players' = <<>>
             /\ completed_players' =
                   Append(completed_players,
                          [name |-> players[1].name,
                           secret_code |-> players[1].secret_code,
                           rank |-> {rank_to_assign}])
             /\ total_guesses' = total_guesses
             /\ pc' = "final"
       /\ pc \in {"final", "game_over"} =>
             /\ total_guesses' = total_guesses
             /\ Len(Printed("turn")') = Len(Printed("turn"))
             /\ pc' \in {"final", "game_over"}]_vars

\* The last of three players has been finished without a guess.
C6_Witness ==
    /\ pc = "final" /\ players = <<>> /\ Len(completed_players) = 3
    /\ output[Len(output)].kind = "auto"
    /\ output[Len(output) - 1].kind = "removed"

SetupNames == {Names[i] : i \in 1..num_players}

\* C7: when the loop has ended with an empty roster, every player created at
\* setup is in the completed list, once, with a rank.
C7_AllRankedAtEnd ==
    (pc \in {"final", "game_over"} /\ players = <<>>) =>
        /\ Len(completed_players) = num_players
        /\ {completed_players[i].name : i \in 1..Len(completed_players)}
              = SetupNames
        /\ \A i \in 1..Len(completed_players) :
              Cardinality(completed_players[i].rank) = 1

\* A two-player match has ended through play.
C7_Witness ==
    /\ pc = "game_over" /\ players = <<>> /\ num_players = 2
    /\ Len(Printed("win")) = 1

\* C8: during play active players have no rank and completed ones have one;
\* the completed list only grows at its end, its entries unchanged; a player
\* leaves the roster in the very step that sets their rank and appends them.
C8_RankSetOnceAndAppended ==
    [][pc # "final" =>
          /\ \A i \in 1..Len(players) : players[i].rank = {}
          /\ \A i \in 1..Len(completed_players) :
                Cardinality(completed_players[i].rank) = 1
          /\ Len(completed_players') >= Len(completed_players)
          /\ SubSeq(completed_players', 1, Len(completed_players))
                = completed_players
          /\ (players' # players \/ completed_players' # completed_players) =>
                \E i \in 1..Len(players) :
                    /\ players' = SubSeq(players, 1, i - 1)
                                    \o SubSeq(players, i + 1, Len(players))
                    /\ Len(completed_players') = Len(completed_players) + 1
                    /\ LET p == completed_players'[Len(completed_players')] IN
                         /\ p.name = players[i].name
                         /\ p.secret_code = players[i].secret_code
                         /\ Cardinality(p.rank) = 1]_vars

\* A second player has joined the completed list while play goes on.
C8_Witness ==
    /\ pc = "loop" /\ Len(completed_players) = 2 /\ Len(players) = 1
    /\ completed_players[1].name # completed_players[2].name

\* The two-player scenario: A holds 1234 and guesses first, B holds 5678,
\* and the guesses made so far are the first of 1235, 5679, 1234.
ScenarioGuesses == <<<<1, 2, 3, 5>>, <<5, 6, 7, 9>>, <<1, 2, 3, 4>>>>

ScenarioScores == <<<<3, 0>>, <<3, 0>>, <<4, 0>>>>

EveryPlayer == players \o completed_players

InScenario ==
    /\ num_players = 2
    /\ \A i \in 1..Len(EveryPlayer) :
          EveryPlayer[i].secret_code =
              IF EveryPlayer[i].name = "A" THEN <<1, 2, 3, 4>> ELSE <<5, 6, 7, 8>>
    /\ Printed("turn") # <<>> => Printed("turn")[1].name = "A"
    /\ Len(Printed("feedback")) <= 3
    /\ \A i \in 1..Len(Printed("feedback")) :
          Printed("feedback")[i].guess = ScenarioGuesses[i]

\* What the scenario produces, with the round counter seen at A's win left open.
ScenarioOutcome(round_of_win) ==
    InScenario =>
        LET T == Printed("turn")
            F == Printed("feedback")
            W == Printed("win")
        IN /\ \A i \in 1..Len(F) :
                 <<F[i].y, F[i].x - F[i].y>> = ScenarioScores[i]
           /\ \A i \in 1..Len(T) :
                 T[i].name = IF i = 2 THEN "B" ELSE "A"
           /\ W # <<>> =>
                 /\ Len(F) = 3 /\ Len(W) = 1
                 /\ W[1].name = "A" /\ W[1].rank = 1
                 /\ T[3].round = round_of_win
           /\ (pc \in {"final", "game_over"} /\ players = <<>>) =>
                 /\ total_guesses = 3
                 /\ output[Len(output)] = [kind |-> "auto", name |-> "B", rank |-> 2]
                 /\ completed_players =
                       << [name |-> "A", secret_code |-> <<1, 2, 3, 4>>, rank |-> {1}],
                          [name |-> "B", secret_code |-> <<5, 6, 7, 8>>, rank |-> {2}] >>

\* C9 as stated: in the scenario the scores are (3,0), (3,0), (4,0), A is
\* ranked 1 with the round counter at 1, B is auto-finished with rank 2 and
\* the completed order is A then B.
C9_ScenarioRoundOne == ScenarioOutcome(1)

\* C9 amended: the same, but the round counter is 2 when A's winning guess
\* is ranked, both players having guessed once before it.
C9_ScenarioRoundTwo == ScenarioOutcome(2)

\* The scenario has been played to its end.
C9_Witness ==
    /\ InScenario /\ pc = "final" /\ players = <<>>
    /\ Len(Printed("feedback")) = 3

\* Reasons by the fixed order length, then non-digit, then repetition, for a
\* trimmed line of characters.
IsDigitChar(c) == c \in {"0", "1", "2", "3", "4", "5", "6", "7", "8", "9"}

ReasonInFixedOrder(t) ==
    IF Len(t) # 4 THEN WrongLength
    ELSE IF \E i \in 1..4 : ~IsDigitChar(t[i]) THEN NonDigitCharacter
    ELSE IF \E i, j \in 1..4 : i < j /\ t[i] = t[j] THEN RepeatedDigit
    ELSE ""

\* C10 as stated: a rejection reports the first reason that applies in the
\* order WrongLength, NonDigitCharacter, RepeatedDigit.
C10_ReasonInFixedOrder ==
    (pc = "checked" /\ ~outcome.valid) =>
        outcome.message = ReasonInFixedOrder(trim(input))

\* Bytes of a line: one per character, two for the wide one.
Bytes(t) == Len(t) + Cardinality({i \in 1..Len(t) : t[i] = EAcute})

\* Position of the first faulty character of a line: not a digit, or a digit
\* that occurred before it (0 when there is none).
Faulty(t, i) == ~IsDigitChar(t[i]) \/ \E j \in 1..(i - 1) : t[j] = t[i]

FirstFault(t) ==
    IF \E i \in 1..Len(t) : Faulty(t, i)
    THEN CHOOSE i \in 1..Len(t) :
             Faulty(t, i) /\ \A j \in 1..(i - 1) : ~Faulty(t, j)
    ELSE 0

\* C10 amended: WrongLength when the trimmed line is not 4 bytes long;
\* otherwise the first faulty character from the left decides, a non-digit
\* giving NonDigitCharacter and a digit seen before giving RepeatedDigit.
C10_ReasonOfFirstFault ==
    pc = "checked" =>
        LET t == trim(input) IN
        IF Bytes(t) # 4
        THEN ~outcome.valid /\ outcome.message = WrongLength
        ELSE IF FirstFault(t) = 0
        THEN outcome.valid
        ELSE /\ ~outcome.valid
             /\ outcome.message = IF IsDigitChar(t[FirstFault(t)])
                                  THEN RepeatedDigit ELSE NonDigitCharacter

\* A line with a repeated digit ahead of a letter was rejected for the digit.
C10_Witness ==
    /\ pc = "checked" /\ input = <<"1", "1", "a", "3">>
    /\ outcome.message = RepeatedDigit

\* The line without its leading and trailing blanks.
NonBlank(s) == {k \in 1..Len(s) : s[k] # " "}

Trimmed(s) ==
    IF NonBlank(s) = {} THEN <<>>
    ELSE SubSeq(s, CHOOSE a \in NonBlank(s) : \A k \in NonBlank(s) : a <= k,
                   CHOOSE b \in NonBlank(s) : \A k \in NonBlank(s) : b >= k)

DigitValue(c) ==
    CASE c = "0" -> 0 [] c = "1" -> 1 [] c = "2" -> 2 [] c = "3" -> 3
      [] c = "4" -> 4 [] c = "5" -> 5 [] c = "6" -> 6 [] c = "7" -> 7
      [] c = "8" -> 8 [] c = "9" -> 9

FourDistinctDigits(t) ==
    /\ Len(t) = 4
    /\ \A i \in 1..4 : IsDigitChar(t[i])
    /\ \A i, j \in 1..4 : i # j => t[i] # t[j]

\* C11: a line is accepted exactly when, trimmed, it is 4 pairwise distinct
\* ASCII digits, and the code returned is those digits in input order, a
\* leading zero kept; "12a3", "1123" and "123" are rejected for a non-digit,
\* a repeated digit and the length.
C11_AcceptsExactlyCodes ==
    pc = "checked" =>
        LET t == Trimmed(input) IN
        /\ outcome.valid <=> FourDistinctDigits(t)
        /\ outcome.valid =>
              outcome.digits = [i \in 1..4 |-> DigitValue(t[i])]
        /\ input = <<"0", "4", "9", "3">> =>
              outcome.valid /\ outcome.digits = <<0, 4, 9, 3>>
        /\ input = <<"1", "2", "a", "3">> =>
              ~outcome.valid /\ outcome.message = NonDigitCharacter
        /\ input = <<"1", "1", "2", "3">> =>
              ~outcome.valid /\ outcome.message = RepeatedDigit
        /\ input = <<"1", "2", "3">> =>
              ~outcome.valid /\ outcome.message = WrongLength

\* A line with a blank in front and a leading zero was accepted.
C11_Witness ==
    /\ pc = "checked" /\ input = <<" ", "0", "4", "9", "3">>
    /\ outcome.valid /\ outcome.digits = <<0, 4, 9, 3>>

MaxSecretDigit == 3
MaxGuessDigit == 7

\* The codes with 4 distinct digits among 0..n.
Codes(n) ==
    {c \in [1..4 -> 0..n] : \A i, j \in 1..4 : i # j => c[i] # c[j]}

\* Secrets A may hold and codes A may type.
SecretCodes == Codes(MaxSecretDigit)

GuessCodes == Codes(MaxGuessDigit)

\* The line a player types for a code.
CodeLine(code) == [i \in 1..4 |-> DigitChars[code[i] + 1]]

\* The first prompt of a two-player match with A to guess, for any secret of A.
InitScore ==
    /\ num_players = 2
    /\ \E s \in SecretCodes, s2 \in SecretPool :
          players = <<Player(Names[1], s), Player(Names[2], s2)>>
    /\ current_player_index = 0
    /\ completed_players = <<>>
    /\ round_number = 1
    /\ total_guesses = 1
    /\ rank_to_assign = 1
    /\ last_assigned_round = 0
    /\ rank_to_assign_final = 0
    /\ pc = "guess"
    /\ input = <<>>
    /\ outcome = NoOutcome
    /\ output = <<[kind |-> "turn", round |-> 1, name |-> Names[1]]>>

\* A types any code; the guess is scored against A's secret.
NextScore ==
    \/ pc = "guess" /\ \E g \in GuessCodes : WrongGuess(CodeLine(g))
    \/ pc = "guess" /\ \E g \in GuessCodes : WinningGuess(CodeLine(g))

SpecScore == InitScore /\ [][NextScore]_vars

\* The latest scored guess, as printed: the guess, the secret it was scored
\* against and the pair (positional, value-only) behind the printed D,P.
Scored == Printed("feedback") # <<>>

LastFeedback == Printed("feedback")[Len(Printed("feedback"))]

LastTurn == Printed("turn")[Len(Printed("turn"))]

ScoredGuess == LastFeedback.guess

ScoredSecret ==
    (CHOOSE p \in Range(EveryPlayer) : p.name = LastTurn.name).secret_code

ScoredPair == <<LastFeedback.y, LastFeedback.x - LastFeedback.y>>

Positional(g, s) == Cardinality({i \in 1..4 : g[i] = s[i]})

Present(g, s) == Cardinality({i \in 1..4 : \E j \in 1..4 : g[i] = s[j]})

\* C13: the score of a guess is (p, v), p the number of positions where guess
\* and secret agree and v the number of guess digits occurring in the secret
\* minus p.
C13_ScoreCounts ==
    Scored =>
        ScoredPair = <<Positional(ScoredGuess, ScoredSecret),
                       Present(ScoredGuess, ScoredSecret)
                           - Positional(ScoredGuess, ScoredSecret)>>

\* A guess scored one digit in position and two more out of position.
C13_Witness == Scored /\ ScoredPair = <<1, 2>>

\* C14: a secret scores (4, 0) against itself, 4 positional matches occur
\* exactly for a guess equal to the secret, and a win is announced exactly then.
C14_WinIffGuessIsSecret ==
    Scored =>
        /\ ScoredGuess = ScoredSecret => ScoredPair = <<4, 0>>
        /\ LastFeedback.y = 4 <=> ScoredGuess = ScoredSecret
        /\ pc = "menu" <=> ScoredGuess = ScoredSecret
        /\ Printed("win") # <<>> <=> ScoredGuess = ScoredSecret

\* A player typed their own secret and the win was announced.
C14_Witness ==
    /\ Scored /\ ScoredGuess = ScoredSecret /\ pc = "menu"
    /\ Printed("win") # <<>> /\ Printed("win")[1].guess = ScoredSecret

\* C15: both parts of a score are in 0..4 and their sum is at most 4; the
\* 8-bit subtraction never wraps.
C15_ScoreInRange ==
    Scored =>
        /\ ScoredPair[1] \in 0..4
        /\ ScoredPair[2] \in 0..4
        /\ ScoredPair[1] + ScoredPair[2] <= 4

\* A guess sharing no digit with the secret scored (0, 0).
C15_Witness ==
    /\ Scored /\ ScoredPair = <<0, 0>>
    /\ Range(ScoredGuess) \cap Range(ScoredSecret) = {}

\* C16: scoring the secret against the guess gives the same total and the
\* same positional count as scoring the guess against the secret.
C16_ScoreSymmetric ==
    Scored =>
        LET swapped == calculate_score(ScoredSecret, ScoredGuess) IN
        /\ LastFeedback.x = swapped[1] + swapped[2]
        /\ LastFeedback.y = swapped[1]

\* A guess with one digit in position and one more out of position.
C16_Witness ==
    /\ Scored /\ LastFeedback.x = 2 /\ LastFeedback.y = 1
    /\ calculate_score(ScoredSecret, ScoredGuess) = <<1, 1>>

\* Position of a name in the setup order, and the name at a cyclic position.
SetupPos(name) == CHOOSE i \in 1..num_players : Names[i] = name

NameAt(pos) == Names[((pos - 1) % num_players) + 1]

\* Players whose removal was printed before entry k of the output.
RemovedBefore(k) ==
    {output[j].name : j \in {i \in 1..(k - 1) : output[i].kind = "removed"}}

\* The first player after the one at setup position p, in cyclic setup
\* order, who is not among the removed.
NextActiveAfter(p, removed) ==
    LET d == CHOOSE d \in 1..num_players :
                 /\ NameAt(p + d) \notin removed
                 /\ \A e \in 1..(d - 1) : NameAt(p + e) \in removed
    IN NameAt(p + d)

\* C17: each player prompted after the first is the first still-active
\* player following the previous guesser in cyclic setup order, and is not
\* that previous guesser.
C17_RoundRobin ==
    \A j, k \in 1..Len(output) :
        (/\ j < k
         /\ output[j].kind = "turn" /\ output[k].kind = "turn"
         /\ \A i \in (j + 1)..(k - 1) : output[i].kind # "turn")
        => /\ output[k].name =
                 NextActiveAfter(SetupPos(output[j].name), RemovedBefore(k))
           /\ output[k].name # output[j].name

\* After A won and left a roster of three, B was prompted; later the order
\* wrapped from C back to B.
C17_Witness ==
    /\ num_players = 3
    /\ \E k \in 2..Len(output) :
          /\ output[k].kind = "turn" /\ output[k].name = "B"
          /\ output[k - 1].kind = "removed" /\ output[k - 1].name = "A"
    /\ Len(Printed("turn")) = 4
    /\ Printed("turn")[3].name = "C" /\ Printed("turn")[4].name = "B"

\* Ranks of the completed list, in append order, and as a set.
CompletedRank(i) == CHOOSE r \in completed_players[i].rank : TRUE

CompletedRanks == {CompletedRank(i) : i \in 1..Len(completed_players)}

\* What does not depend on the next-rank counter: ranks non-decreasing in
\* append order and at most the number of players, the tie branch reachable
\* only once a rank has been given (so the clamp to 1 never fires), and the
\* final sort a no-op.
RanksOrdered ==
    /\ \A i, j \in 1..Len(completed_players) :
          i < j => CompletedRank(i) <= CompletedRank(j)
    /\ \A r \in CompletedRanks : r >= 1 /\ r <= num_players
    /\ round_number <= last_assigned_round => rank_to_assign >= 2
    /\ sort_by_rank(completed_players) = completed_players

\* C18 as stated: in every reachable state the completed ranks are exactly
\* 1..k with k = rank_to_assign - 1.
C18_RanksUpToCounter ==
    /\ RanksOrdered
    /\ CompletedRanks = 1..(rank_to_assign - 1)

\* C18 amended: the completed ranks are exactly 1..k, where k is
\* rank_to_assign - 1 while play is at the loop head or at a prompt;
\* rank_to_assign once the last player has been auto-finished (the counter is
\* not advanced for that rank); and, while a winner waits in the post-game
\* menu, the rank decided for that winner together with the completed ranks
\* makes up 1..rank_to_assign - 1.
C18_RanksDense ==
    /\ RanksOrdered
    /\ \E k \in 0..num_players : CompletedRanks = 1..k
    /\ pc \in {"loop", "guess"} => CompletedRanks = 1..(rank_to_assign - 1)
    /\ players = <<>> => CompletedRanks = 1..rank_to_assign
    /\ pc = "menu" =>
          CompletedRanks \cup {rank_to_assign_final} = 1..(rank_to_assign - 1)
    /\ (pc \in {"final", "game_over", "exited"} /\ players # <<>>) =>
          CompletedRanks \in {1..(rank_to_assign - 1), 1..(rank_to_assign - 2)}

\* Two players tied for rank 1 and the last one was auto-finished second.
C18_Witness ==
    /\ pc = "game_over" /\ Len(completed_players) = 3
    /\ [i \in 1..3 |-> CompletedRank(i)] = <<1, 1, 2>>

\* ------------------------------------------- a match played to its end
\* Wrong guesses a match may see before every further accepted guess is the
\* guesser's secret; with at most MaxPlayers - 1 winning guesses after them
\* the guess counter stays within MaxGuesses.
WrongBudget == MaxGuesses - MaxPlayers + 1

\* Play without restart or quit, wrong guesses within the budget.
NextLive ==
    \/ AutoFinish
    \/ BeginTurn
    \/ \E raw \in GuessInputs : RejectGuess(raw)
    \/ total_guesses <= WrongBudget /\ \E raw \in GuessInputs : WrongGuess(raw)
    \/ \E raw \in GuessInputs : WinningGuess(raw)
    \/ MenuContinue
    \/ FinalDisplay

\* The loop keeps running, a prompted player eventually types their secret
\* unless they typed a wrong guess first, and play is continued after a win.
Progress ==
    \/ AutoFinish
    \/ BeginTurn
    \/ \E raw \in GuessInputs : WinningGuess(raw)
    \/ MenuContinue

SpecLive == Init /\ [][NextLive]_vars /\ WF_vars(Progress)

\* C19: under these assumptions every match eventually ends with an empty
\* roster.
C19_MatchTerminates ==
    <>(players = <<>> /\ pc \in {"final", "game_over"})

\* A three-player match has ended after two wins and at least one wrong guess.
C19_Witness ==
    /\ players = <<>> /\ pc = "game_over" /\ num_players = 3
    /\ Len(Printed("win")) = 2 /\ total_guesses >= 3

\* C20: a guess is asked for and a win is decided only with two or more
\* active players; a match that ends with an empty roster ended by the
\* auto-finish of its last player; a single-player match ends with that
\* player at rank 1, no guess counted and the round counter at 1.
C20_GuessNeedsTwoPlayers ==
    /\ pc \in {"guess", "menu"} => Len(players) >= 2
    /\ \A k \in 1..Len(output) :
          output[k].kind = "win" =>
              num_players - Cardinality(RemovedBefore(k)) >= 2
    /\ players = <<>> =>
          /\ output[Len(output)].kind = "auto"
          /\ output[Len(output)].name =
                completed_players[Len(completed_players)].name
          /\ Len(Printed("win")) = num_players - 1
          /\ Len(Printed("auto")) = 1
    /\ (num_players = 1 /\ players = <<>>) =>
          /\ completed_players =
                <<[name |-> Names[1],
                   secret_code |-> completed_players[1].secret_code,
                   rank |-> {1}]>>
          /\ total_guesses = 0
          /\ round_number = 1

\* A single-player match has ended without a guess.
C20_Witness ==
    /\ num_players = 1 /\ players = <<>> /\ pc = "final"
    /\ total_guesses = 0 /\ completed_players[1].rank = {1}

====
